---- MODULE Spec2Model ----
(***************************************************************************)
(* Divergence latch engines of scripts/: the OR-latch engines              *)
(* (pex-shadow.py, pex_shadow_v2.py), the AND-decay engines                *)
(* (pex_shadow_2.py, pex_shadow2_v2.py) and the clip loop of               *)
(* pex_generation_pipeline.py.                                             *)
(*                                                                         *)
(* A YAML file is a record [exists, data]; data is the list of snapshots   *)
(* it holds.  A snapshot is a record [model, is_start]; model is the       *)
(* python dict of the snapshot (_model): a function whose DOMAIN is the    *)
(* set of keys that are present.                                           *)
(***************************************************************************)
EXTENDS Integers, Sequences, FiniteSets, TLC

VARIABLES
    fs,              \* the files on disk: file name -> [exists, data]
    engine,          \* the script that is running
    argv,            \* its file arguments [prev, new, out]
    shadow_map,      \* the pair table: a set of <<monitored id, shadow id>>
    data,            \* process_trace: the loaded trace, annotated in place
    idx,             \* process_trace: number of snapshots already folded
    first,           \* process_trace (OR): the first-snapshot flag
    prev_vals,       \* process_trace: dict monitored id -> preceding value
    shadow_latched,  \* process_trace: dict shadow id -> latched value
    active,          \* process_trace: the set of pairs still evaluated
    pc,              \* position of the engine process
    policy,          \* pipeline: --shadow-policy, one entry per clip
    traces,          \* pipeline: the trace vcd_to_pex yields for each clip
    clip_i,          \* pipeline: loop variable i
    prev_shadowed,   \* pipeline: name of the previous shadowed file or "None"
    ppc,             \* position of the pipeline process
    mapping_file,    \* table parser: the lines of the pair table file
    lineno,          \* table parser: number of lines already read
    pairs,           \* table parser: the list of (gate_id, shadow_id) so far
    mpc,             \* position of the table parser
    flow_args,       \* run_formal_flow: the parsed command line and the input file
    flow_i,          \* run_formal_flow: index into FLOW of the loop of main
    started,         \* run_formal_flow: ids of the steps whose func was called
    failed,          \* run_formal_flow: ids of the steps that did not succeed
    fpc              \* position of run_formal_flow

engine_vars == <<engine, argv, shadow_map, data, idx, first, prev_vals,
                 shadow_latched, active, pc>>
pipe_vars == <<policy, traces, clip_i, prev_shadowed, ppc>>
parse_vars == <<mapping_file, lineno, pairs, mpc>>
flow_vars == <<flow_args, flow_i, started, failed, fpc>>
vars == <<fs, engine, argv, shadow_map, data, idx, first, prev_vals,
          shadow_latched, active, pc, policy, traces, clip_i, prev_shadowed, ppc,
          mapping_file, lineno, pairs, mpc,
          flow_args, flow_i, started, failed, fpc>>

----------------------------------------------------------------------------
(* Bounds of the model *)

\* longest trace file of a single engine invocation
MaxLen == 3
\* longest clip of a pipeline run
MaxPipeLen == 2
\* largest --clips of a pipeline run
MaxClips == 2
\* longest pair table file, in lines
MaxLines == 2
\* longest previous output handed to an AND engine
MaxPrevLen == 2
\* longest new clip of a run that continues a previous output of several snapshots
MaxSeedClipLen == 2
\* largest --clips of a pipeline run over clips of at most one snapshot
MaxChain == 3
\* largest step_limit given to run_formal_flow
MaxLimit == 9
\* longest OR clip of a mixed-policy pipeline run
MaxMixedLen == 2

----------------------------------------------------------------------------
(* python dicts *)

EmptyDict == [x \in {} |-> 0]

\* d.get(k, dflt)
Get(d, k, dflt) == IF k \in DOMAIN d THEN d[k] ELSE dflt

\* d[k] = v
Put(d, k, v) == [x \in (DOMAIN d) \cup {k} |-> IF x = k THEN v ELSE d[x]]

\* for k in ks: d[k] = v
PutAll(d, ks, v) == [x \in (DOMAIN d) \cup ks |-> IF x \in ks THEN v ELSE d[x]]

\* the orders in which "for ... in <set>" may visit the set S
Orders(S) ==
    {o \in [1..Cardinality(S) -> S] : \A a, b \in DOMAIN o : a # b => o[a] # o[b]}

OrigIds(sm) == {p[1] : p \in sm}
ShadowIds(sm) == {p[2] : p \in sm}

MissingFile == [exists |-> FALSE, data |-> <<>>]
File(d) == [exists |-> TRUE, data |-> d]

----------------------------------------------------------------------------
(* Inputs *)

OrEngines == {"pex-shadow", "pex_shadow_v2"}
AndEngines == {"pex_shadow_2", "pex_shadow2_v2"}

\* pair tables: monitored ids 10, 11 with their shadows 20, 21
Tables == { {}, {<<10, 20>>}, {<<10, 20>>, <<11, 21>>} }

\* what a trace snapshot holds for monitored id 10: nothing, 0 or 1
Mon10 == { EmptyDict, 10 :> 0, 10 :> 1 }

\* the rest of a trace snapshot: id 11, a stale entry for shadow id 20, is_start
Rest == { [model |-> 11 :> 0, is_start |-> FALSE],
          [model |-> (11 :> 1) @@ (20 :> 1), is_start |-> TRUE] }

SnapUniverse ==
    { [model |-> a @@ r.model, is_start |-> r.is_start] : a \in Mon10, r \in Rest }

Clips(n) == UNION { [1..l -> SnapUniverse] : l \in 0..n }

\* shadow entries of the last snapshot of a previous output (any integer may
\* be stored under a shadow id)
SeedShadows == { 11 :> 0,
                 (11 :> 0) @@ (20 :> 0) @@ (21 :> 1),
                 (11 :> 0) @@ (20 :> 1) @@ (21 :> 0),
                 (11 :> 1) @@ (20 :> 2) @@ (21 :> 1) }

SeedUniverse ==
    { [model |-> a @@ s, is_start |-> FALSE] : a \in Mon10, s \in SeedShadows }

\* prev.yaml of an AND engine: missing, empty, or ending in a seed snapshot
PrevFiles == {MissingFile, File(<<>>)} \cup { File(<<s>>) : s \in SeedUniverse }

----------------------------------------------------------------------------
(* OR engines: pex-shadow.py and pex_shadow_v2.py *)

\* OrPair without the latch: a change is written to this snapshot only and the
\* pair stays active
OrPair_nolatch(st, p) ==
    LET oid == p[1]
        sid == p[2]
        curr == Get(st.model, oid, 0)
    IN  [model |-> Put(st.model, sid, IF curr # Get(st.prev_vals, oid, 0) THEN 1 ELSE 0),
         prev_vals |-> Put(st.prev_vals, oid, curr),
         shadow_latched |-> st.shadow_latched,
         new_active |-> st.new_active \cup {p}]

\* body of "for oid, sid in active" for one pair p; st = [model, prev_vals,
\* shadow_latched, new_active]
OrPair(st, p) ==
    LET oid == p[1]
        sid == p[2]
        curr == Get(st.model, oid, 0)
    IN  IF curr # Get(st.prev_vals, oid, 0)
        THEN [model |-> Put(st.model, sid, 1),
              prev_vals |-> Put(st.prev_vals, oid, curr),
              shadow_latched |-> Put(st.shadow_latched, sid, 1),
              new_active |-> st.new_active]
        ELSE [model |-> Put(st.model, sid, st.shadow_latched[sid]),
              prev_vals |-> Put(st.prev_vals, oid, curr),
              shadow_latched |-> st.shadow_latched,
              new_active |-> IF st.shadow_latched[sid] = 0
                             THEN st.new_active \cup {p}
                             ELSE st.new_active]

RECURSIVE OrPairs(_, _, _)
OrPairs(order, n, st) ==
    IF n = 0 THEN st ELSE OrPair(OrPairs(order, n - 1, st), order[n])

\* OrEnforce that writes nothing: a latched shadow is written only while its
\* pair is visited
OrEnforce_none(model, latched) == model

\* "for sid, val in shadow_latched.items(): if val == 1: model[sid] = 1"
OrEnforce(model, latched) ==
    PutAll(model, {sid \in DOMAIN latched : latched[sid] = 1}, 1)

\* OrFirst that does not record the preceding values
OrFirst_noprev(model, sm, act, pv, latched) ==
    [model |-> PutAll(model, DOMAIN latched, 0),
     prev_vals |-> pv,
     shadow_latched |-> latched,
     active |-> act,
     first |-> FALSE]

\* the first snapshot: shadows forced to 0, preceding values recorded
OrFirst(model, sm, act, pv, latched) ==
    LET m1 == PutAll(model, DOMAIN latched, 0)
    IN  [model |-> m1,
         prev_vals |-> [x \in (DOMAIN pv) \cup OrigIds(sm) |->
                          IF x \in OrigIds(sm) THEN Get(m1, x, 0) ELSE pv[x]],
         shadow_latched |-> latched,
         active |-> act,
         first |-> FALSE]

\* every later snapshot
OrRest(order, model, pv, latched) ==
    LET r == OrPairs(order, Len(order),
                     [model |-> model, prev_vals |-> pv,
                      shadow_latched |-> latched, new_active |-> {}])
    IN  [model |-> OrEnforce(r.model, r.shadow_latched),
         prev_vals |-> r.prev_vals,
         shadow_latched |-> r.shadow_latched,
         active |-> r.new_active,
         first |-> FALSE]

\* OrStep without the special case of the first snapshot
OrStep_nofirst(order, f, sm, act, model, pv, latched) ==
    OrRest(order, model, pv, latched)

\* one iteration of "for snap in data"; order is the visiting order of active
OrStep(order, f, sm, act, model, pv, latched) ==
    IF f THEN OrFirst(model, sm, act, pv, latched)
    ELSE OrRest(order, model, pv, latched)

\* Clean that does not carry is_start over
Clean_nostart(d) ==
    [k \in 1..Len(d) |-> [model |-> d[k].model, is_start |-> FALSE]]

\* Clean that leaves out the first snapshot
Clean_skipfirst(d) ==
    [k \in 1..(Len(d) - 1) |->
        [model |-> d[k + 1].model, is_start |-> d[k + 1].is_start]]

\* Clean that stamps every snapshot with the is_start of the last one
Clean_laststart(d) ==
    [k \in 1..Len(d) |-> [model |-> d[k].model, is_start |-> d[Len(d)].is_start]]

\* the clean_data list handed to yaml.safe_dump
Clean(d) ==
    [k \in 1..Len(d) |->
        [model |-> d[k].model,
         is_start |-> IF "is_start" \in DOMAIN d[k] THEN d[k].is_start ELSE FALSE]]

OrStart ==
    /\ pc = "start"
    /\ engine \in OrEngines
    /\ IF fs[argv.new].exists
       THEN /\ prev_vals' = EmptyDict
            /\ shadow_latched' = [sid \in ShadowIds(shadow_map) |-> 0]
            /\ active' = shadow_map
            /\ fs' = [fs EXCEPT ![argv.out] = File(<<>>)]
            /\ data' = fs[argv.new].data
            /\ first' = TRUE
            /\ idx' = 0
            /\ pc' = "loop"
       ELSE /\ pc' = "error"
            /\ UNCHANGED <<fs, data, idx, first, prev_vals, shadow_latched, active>>
    /\ UNCHANGED <<engine, argv, shadow_map>>
    /\ UNCHANGED pipe_vars
    /\ UNCHANGED parse_vars
    /\ UNCHANGED flow_vars

OrSnapshot ==
    /\ pc = "loop"
    /\ engine \in OrEngines
    /\ idx < Len(data)
    /\ \E order \in Orders(active) :
         LET r == OrStep(order, first, shadow_map, active, data[idx + 1].model,
                         prev_vals, shadow_latched)
         IN  /\ data' = [data EXCEPT ![idx + 1].model = r.model]
             /\ prev_vals' = r.prev_vals
             /\ shadow_latched' = r.shadow_latched
             /\ active' = r.active
             /\ first' = r.first
    /\ idx' = idx + 1
    /\ UNCHANGED <<fs, engine, argv, shadow_map, pc>>
    /\ UNCHANGED pipe_vars
    /\ UNCHANGED parse_vars
    /\ UNCHANGED flow_vars

OrDump ==
    /\ pc = "loop"
    /\ engine \in OrEngines
    /\ idx = Len(data)
    /\ fs' = [fs EXCEPT ![argv.out] = File(Clean(data))]
    /\ pc' = "done"
    /\ UNCHANGED <<engine, argv, shadow_map, data, idx, first, prev_vals,
                   shadow_latched, active>>
    /\ UNCHANGED pipe_vars
    /\ UNCHANGED parse_vars
    /\ UNCHANGED flow_vars

----------------------------------------------------------------------------
(* AND engines: pex_shadow_2.py and pex_shadow2_v2.py *)

\* SeedFrom that seeds every shadow with the default 1
SeedFrom_noshadow(last_model, sm) ==
    [ok |-> TRUE,
     prev_orig_vals |-> [oid \in OrigIds(sm) |-> Get(last_model, oid, 0)],
     prev_shadow_vals |-> [sid \in ShadowIds(sm) |-> 1]]

\* SeedFrom that seeds every preceding monitored value with the default 0
SeedFrom_nomon(last_model, sm) ==
    [ok |-> TRUE,
     prev_orig_vals |-> [oid \in OrigIds(sm) |-> 0],
     prev_shadow_vals |-> [sid \in ShadowIds(sm) |-> Get(last_model, sid, 1)]]

\* SeedFrom that seeds an absent shadow with 0, the default of the OR policy
SeedFrom_shadow0(last_model, sm) ==
    [ok |-> TRUE,
     prev_orig_vals |-> [oid \in OrigIds(sm) |-> Get(last_model, oid, 0)],
     prev_shadow_vals |-> [sid \in ShadowIds(sm) |-> Get(last_model, sid, 0)]]

\* seeds read from the last snapshot of the previous output
SeedFrom(last_model, sm) ==
    [ok |-> TRUE,
     prev_orig_vals |-> [oid \in OrigIds(sm) |-> Get(last_model, oid, 0)],
     prev_shadow_vals |-> [sid \in ShadowIds(sm) |-> Get(last_model, sid, 1)]]

\* "treat everything as defaulted" of pex_shadow2_v2
SeedDefaults(sm) ==
    [ok |-> TRUE,
     prev_orig_vals |-> [oid \in OrigIds(sm) |-> 0],
     prev_shadow_vals |-> [sid \in ShadowIds(sm) |-> 1]]

SeedError ==
    [ok |-> FALSE, prev_orig_vals |-> EmptyDict, prev_shadow_vals |-> EmptyDict]

\* load_last_snapshot that reads data[0] in place of data[-1]
LoadLastSnapshot_first(eng, f, sm) ==
    IF eng = "pex_shadow_2"
    THEN IF ~f.exists \/ f.data = <<>>
         THEN SeedError
         ELSE SeedFrom(f.data[1].model, sm)
    ELSE IF ~f.exists \/ f.data = <<>>
         THEN SeedDefaults(sm)
         ELSE SeedFrom(f.data[1].model, sm)

\* load_last_snapshot(prev_yaml, shadow_map) of engine eng; f is the file
LoadLastSnapshot(eng, f, sm) ==
    IF eng = "pex_shadow_2"
    THEN IF ~f.exists \/ f.data = <<>>
         THEN SeedError
         ELSE SeedFrom(f.data[Len(f.data)].model, sm)
    ELSE IF ~f.exists \/ f.data = <<>>
         THEN SeedDefaults(sm)
         ELSE SeedFrom(f.data[Len(f.data)].model, sm)

\* AndPair without the latch: the shadow is recomputed on every snapshot and
\* the pair stays active
AndPair_nolatch(st, p) ==
    LET oid == p[1]
        sid == p[2]
        curr == Get(st.model, oid, 0)
    IN  [model |-> st.model,
         prev_vals |-> Put(st.prev_vals, oid, curr),
         shadow_latched |-> Put(st.shadow_latched, sid,
                                IF curr # Get(st.prev_vals, oid, 0) THEN 0 ELSE 1),
         new_active |-> st.new_active \cup {p}]

\* AndPair that reads an absent monitored id as 1
AndPair_absent1(st, p) ==
    LET oid == p[1]
        sid == p[2]
        curr == Get(st.model, oid, 1)
        latched == IF curr # Get(st.prev_vals, oid, 0)
                   THEN Put(st.shadow_latched, sid, 0)
                   ELSE st.shadow_latched
    IN  [model |-> st.model,
         prev_vals |-> Put(st.prev_vals, oid, curr),
         shadow_latched |-> latched,
         new_active |-> IF Get(latched, sid, 1) = 1
                        THEN st.new_active \cup {p}
                        ELSE st.new_active]

\* AndPair that keeps every pair it visits in the active set
AndPair_keepactive(st, p) ==
    LET oid == p[1]
        sid == p[2]
        curr == Get(st.model, oid, 0)
        latched == IF curr # Get(st.prev_vals, oid, 0)
                   THEN Put(st.shadow_latched, sid, 0)
                   ELSE st.shadow_latched
    IN  [model |-> st.model,
         prev_vals |-> Put(st.prev_vals, oid, curr),
         shadow_latched |-> latched,
         new_active |-> st.new_active \cup {p}]

\* AndPair that never sees a change: the latched value stays as seeded
AndPair_blind(st, p) ==
    LET oid == p[1]
        sid == p[2]
        curr == Get(st.model, oid, 0)
    IN  [model |-> st.model,
         prev_vals |-> Put(st.prev_vals, oid, curr),
         shadow_latched |-> st.shadow_latched,
         new_active |-> IF Get(st.shadow_latched, sid, 1) = 1
                        THEN st.new_active \cup {p}
                        ELSE st.new_active]

\* body of "for oid, sid in active" for one pair p; st = [model, prev_vals,
\* shadow_latched, new_active]
AndPair(st, p) ==
    LET oid == p[1]
        sid == p[2]
        curr == Get(st.model, oid, 0)
        latched == IF curr # Get(st.prev_vals, oid, 0)
                   THEN Put(st.shadow_latched, sid, 0)
                   ELSE st.shadow_latched
    IN  [model |-> st.model,
         prev_vals |-> Put(st.prev_vals, oid, curr),
         shadow_latched |-> latched,
         new_active |-> IF Get(latched, sid, 1) = 1
                        THEN st.new_active \cup {p}
                        ELSE st.new_active]

RECURSIVE AndPairs(_, _, _)
AndPairs(order, n, st) ==
    IF n = 0 THEN st ELSE AndPair(AndPairs(order, n - 1, st), order[n])

\* AndEnforce that writes only the shadows latched at 0
AndEnforce_onlyzero(model, latched) ==
    PutAll(model, {sid \in DOMAIN latched : latched[sid] = 0}, 0)

\* "for sid, val in shadow_latched.items(): model[sid] = val"
AndEnforce(model, latched) ==
    [x \in (DOMAIN model) \cup (DOMAIN latched) |->
        IF x \in DOMAIN latched THEN latched[x] ELSE model[x]]

\* one iteration of "for snap in data"; order is the visiting order of active
AndStep(order, model, pv, latched) ==
    LET r == AndPairs(order, Len(order),
                      [model |-> model, prev_vals |-> pv,
                       shadow_latched |-> latched, new_active |-> {}])
    IN  [model |-> AndEnforce(r.model, r.shadow_latched),
         prev_vals |-> r.prev_vals,
         shadow_latched |-> r.shadow_latched,
         active |-> r.new_active]

AndStart ==
    /\ pc = "start"
    /\ engine \in AndEngines
    /\ LET s == LoadLastSnapshot(engine, fs[argv.prev], shadow_map)
       IN  IF ~s.ok \/ ~fs[argv.new].exists
           THEN /\ pc' = "error"
                /\ UNCHANGED <<fs, data, idx, prev_vals, shadow_latched, active>>
           ELSE /\ prev_vals' = s.prev_orig_vals
                /\ shadow_latched' = s.prev_shadow_vals
                /\ active' = shadow_map
                /\ data' = fs[argv.new].data
                /\ idx' = 0
                /\ IF engine = "pex_shadow_2"
                   THEN /\ fs' = [fs EXCEPT ![argv.out] = File(<<>>)]
                        /\ pc' = "loop"
                   ELSE IF fs[argv.new].data = <<>>
                        THEN /\ fs' = [fs EXCEPT ![argv.out] = File(<<>>)]
                             /\ pc' = "done"
                        ELSE /\ fs' = fs
                             /\ pc' = "loop"
    /\ UNCHANGED <<engine, argv, shadow_map, first>>
    /\ UNCHANGED pipe_vars
    /\ UNCHANGED parse_vars
    /\ UNCHANGED flow_vars

AndSnapshot ==
    /\ pc = "loop"
    /\ engine \in AndEngines
    /\ idx < Len(data)
    /\ \E order \in Orders(active) :
         LET r == AndStep(order, data[idx + 1].model, prev_vals, shadow_latched)
         IN  /\ data' = [data EXCEPT ![idx + 1].model = r.model]
             /\ prev_vals' = r.prev_vals
             /\ shadow_latched' = r.shadow_latched
             /\ active' = r.active
    /\ idx' = idx + 1
    /\ UNCHANGED <<fs, engine, argv, shadow_map, first, pc>>
    /\ UNCHANGED pipe_vars
    /\ UNCHANGED parse_vars
    /\ UNCHANGED flow_vars

AndDump ==
    /\ pc = "loop"
    /\ engine \in AndEngines
    /\ idx = Len(data)
    /\ fs' = [fs EXCEPT ![argv.out] = File(Clean(data))]
    /\ pc' = "done"
    /\ UNCHANGED <<engine, argv, shadow_map, data, idx, first, prev_vals,
                   shadow_latched, active>>
    /\ UNCHANGED pipe_vars
    /\ UNCHANGED parse_vars
    /\ UNCHANGED flow_vars

----------------------------------------------------------------------------
(* process_trace as a whole: the trace it dumps for a given input *)

RECURSIVE OrFold(_, _, _)
\* locals of the OR process_trace once its loop has folded n snapshots of d
OrFold(d, n, sm) ==
    IF n = 0
    THEN [data |-> d, prev_vals |-> EmptyDict,
          shadow_latched |-> [sid \in ShadowIds(sm) |-> 0],
          active |-> sm, first |-> TRUE]
    ELSE LET s == OrFold(d, n - 1, sm)
             order == CHOOSE o \in Orders(s.active) : TRUE
             r == OrStep(order, s.first, sm, s.active, s.data[n].model,
                         s.prev_vals, s.shadow_latched)
         IN  [data |-> [s.data EXCEPT ![n].model = r.model],
              prev_vals |-> r.prev_vals,
              shadow_latched |-> r.shadow_latched,
              active |-> r.active, first |-> r.first]

\* what the OR process_trace writes to output_yaml for the trace d
OrRun(d, sm) == Clean(OrFold(d, Len(d), sm).data)

RECURSIVE AndFold(_, _, _, _)
\* locals of the AND process_trace once its loop has folded n snapshots of d;
\* seed is the result of load_last_snapshot
AndFold(d, n, sm, seed) ==
    IF n = 0
    THEN [data |-> d, prev_vals |-> seed.prev_orig_vals,
          shadow_latched |-> seed.prev_shadow_vals, active |-> sm]
    ELSE LET s == AndFold(d, n - 1, sm, seed)
             order == CHOOSE o \in Orders(s.active) : TRUE
             r == AndStep(order, s.data[n].model, s.prev_vals, s.shadow_latched)
         IN  [data |-> [s.data EXCEPT ![n].model = r.model],
              prev_vals |-> r.prev_vals,
              shadow_latched |-> r.shadow_latched,
              active |-> r.active]

\* what the AND process_trace of engine eng writes to output_yaml for the
\* previous output prev (a file) and the trace d
AndRun(eng, prev, d, sm) ==
    Clean(AndFold(d, Len(d), sm, LoadLastSnapshot(eng, prev, sm)).data)

----------------------------------------------------------------------------
(* One invocation of one engine from the command line *)

\* the pair table is given: the table parser is not part of the run
InitTableGiven ==
    /\ mapping_file = <<>>
    /\ lineno = 0
    /\ pairs = <<>>
    /\ mpc = "off"

\* run_formal_flow is not part of the run
InitNoFlow ==
    /\ flow_args = [has_limit |-> FALSE, step_limit |-> 0, list_steps |-> FALSE,
                    input_exists |-> FALSE]
    /\ flow_i = 0
    /\ started = <<>>
    /\ failed = {}
    /\ fpc = "off"

InitEngineLocals ==
    /\ data = <<>>
    /\ idx = 0
    /\ first = TRUE
    /\ prev_vals = EmptyDict
    /\ shadow_latched = EmptyDict
    /\ active = {}

Init ==
    /\ engine \in OrEngines \cup AndEngines
    /\ shadow_map \in Tables
    /\ argv = [prev |-> "prev.yaml", new |-> "new.yaml", out |-> "out.yaml"]
    /\ \E c \in Clips(MaxLen), p \in PrevFiles :
         /\ engine \in OrEngines => p = MissingFile
         /\ fs = [n \in {"prev.yaml", "new.yaml", "out.yaml"} |->
                    IF n = "new.yaml" THEN File(c)
                    ELSE IF n = "prev.yaml" THEN p ELSE MissingFile]
    /\ InitEngineLocals
    /\ InitTableGiven
    /\ InitNoFlow
    /\ pc = "start"
    /\ policy = <<>>
    /\ traces = <<>>
    /\ clip_i = 0
    /\ prev_shadowed = "None"
    /\ ppc = "off"

Next ==
    \/ OrStart
    \/ OrSnapshot
    \/ OrDump
    \/ AndStart
    \/ AndSnapshot
    \/ AndDump

Spec == Init /\ [][Next]_vars

----------------------------------------------------------------------------
(* pex_generation_pipeline.py *)

\* out_shadow of clip i
OutShadow(i) == "clip_" \o ToString(i) \o "_shadow.yaml"

PipeFiles(n) == {"pex.yaml"} \cup {OutShadow(i) : i \in 1..n}

\* snapshots of the traces of a pipeline run
PipeSnaps == { [model |-> (10 :> v) @@ (11 :> 0), is_start |-> FALSE] : v \in {0, 1} }

PipeClips == UNION { [1..l -> PipeSnaps] : l \in 1..MaxPipeLen }

\* shadow_or / shadow_and: the subprocess is started with these arguments
Launch(eng, a) ==
    /\ engine' = eng
    /\ argv' = a
    /\ pc' = "start"
    /\ UNCHANGED <<shadow_map, data, idx, first, prev_vals, shadow_latched, active>>

\* Stage A: vcd_to_pex(config) writes pex.yaml
PipeVcdToPex ==
    /\ ppc = "stageA"
    /\ fs' = [fs EXCEPT !["pex.yaml"] = File(traces[clip_i])]
    /\ ppc' = "stageB"
    /\ UNCHANGED <<policy, traces, clip_i, prev_shadowed>>
    /\ UNCHANGED parse_vars
    /\ UNCHANGED flow_vars
    /\ UNCHANGED engine_vars

\* PipeShadow without the check of prev_shadowed: on the first clip the AND
\* engine is handed the unshadowed trace as previous output
PipeShadow_nocheck ==
    /\ ppc = "stageB"
    /\ IF policy[clip_i] = 0
       THEN Launch("pex-shadow",
                   [prev |-> "None", new |-> "pex.yaml", out |-> OutShadow(clip_i)])
       ELSE Launch("pex_shadow_2",
                   [prev |-> IF prev_shadowed = "None" THEN "pex.yaml" ELSE prev_shadowed,
                    new |-> "pex.yaml", out |-> OutShadow(clip_i)])
    /\ ppc' = "run"
    /\ UNCHANGED <<fs, policy, traces, clip_i, prev_shadowed>>
    /\ UNCHANGED parse_vars
    /\ UNCHANGED flow_vars

\* PipeShadow that hands the AND engine the unshadowed trace pex.yaml as
\* previous output
PipeShadow_unshadowed ==
    /\ ppc = "stageB"
    /\ IF policy[clip_i] = 0
       THEN /\ Launch("pex-shadow",
                      [prev |-> "None", new |-> "pex.yaml", out |-> OutShadow(clip_i)])
            /\ ppc' = "run"
       ELSE IF prev_shadowed = "None"
            THEN /\ ppc' = "error"
                 /\ UNCHANGED engine_vars
            ELSE /\ Launch("pex_shadow_2",
                           [prev |-> "pex.yaml", new |-> "pex.yaml",
                            out |-> OutShadow(clip_i)])
                 /\ ppc' = "run"
    /\ UNCHANGED <<fs, policy, traces, clip_i, prev_shadowed>>
    /\ UNCHANGED parse_vars
    /\ UNCHANGED flow_vars

\* Stage B: the policy of the clip selects the engine
PipeShadow ==
    /\ ppc = "stageB"
    /\ IF policy[clip_i] = 0
       THEN /\ Launch("pex-shadow",
                      [prev |-> "None", new |-> "pex.yaml", out |-> OutShadow(clip_i)])
            /\ ppc' = "run"
       ELSE IF prev_shadowed = "None"
            THEN /\ ppc' = "error"
                 /\ UNCHANGED engine_vars
            ELSE /\ Launch("pex_shadow_2",
                           [prev |-> prev_shadowed, new |-> "pex.yaml",
                            out |-> OutShadow(clip_i)])
                 /\ ppc' = "run"
    /\ UNCHANGED <<fs, policy, traces, clip_i, prev_shadowed>>
    /\ UNCHANGED parse_vars
    /\ UNCHANGED flow_vars

\* PipeReturn with subprocess.run(cmd) without check=True: the exit status of
\* the engine is ignored
PipeReturn_unchecked ==
    /\ ppc = "run"
    /\ pc \in {"done", "error"}
    /\ prev_shadowed' = OutShadow(clip_i)
    /\ IF clip_i < Len(policy)
       THEN /\ clip_i' = clip_i + 1
            /\ ppc' = "stageA"
       ELSE /\ clip_i' = clip_i
            /\ ppc' = "done"
    /\ pc' = "idle"
    /\ UNCHANGED <<fs, policy, traces>>
    /\ UNCHANGED parse_vars
    /\ UNCHANGED flow_vars
    /\ UNCHANGED <<engine, argv, shadow_map, data, idx, first, prev_vals,
                   shadow_latched, active>>

\* subprocess.run(cmd, check=True) returns, then prev_shadowed = out_shadow
PipeReturn ==
    /\ ppc = "run"
    /\ pc \in {"done", "error"}
    /\ IF pc = "error"
       THEN /\ ppc' = "error"
            /\ UNCHANGED <<clip_i, prev_shadowed>>
       ELSE /\ prev_shadowed' = OutShadow(clip_i)
            /\ IF clip_i < Len(policy)
               THEN /\ clip_i' = clip_i + 1
                    /\ ppc' = "stageA"
               ELSE /\ clip_i' = clip_i
                    /\ ppc' = "done"
    /\ pc' = "idle"
    /\ UNCHANGED <<fs, policy, traces>>
    /\ UNCHANGED parse_vars
    /\ UNCHANGED flow_vars
    /\ UNCHANGED <<engine, argv, shadow_map, data, idx, first, prev_vals,
                   shadow_latched, active>>

InitPipe ==
    /\ \E n \in 1..MaxClips :
         /\ policy \in [1..n -> {0, 1}]
         /\ traces \in [1..n -> PipeClips]
         /\ fs = [f \in PipeFiles(n) |-> MissingFile]
    /\ shadow_map \in Tables \ {{}}
    /\ clip_i = 1
    /\ prev_shadowed = "None"
    /\ ppc = "stageA"
    /\ engine = "none"
    /\ argv = [prev |-> "None", new |-> "None", out |-> "None"]
    /\ InitEngineLocals
    /\ InitTableGiven
    /\ InitNoFlow
    /\ pc = "idle"

NextPipe ==
    \/ PipeVcdToPex
    \/ PipeShadow
    \/ PipeReturn
    \/ OrStart
    \/ OrSnapshot
    \/ OrDump
    \/ AndStart
    \/ AndSnapshot
    \/ AndDump

SpecPipe == InitPipe /\ [][NextPipe]_vars

\* the traces of a longer pipeline run: empty, or one snapshot
ChainClips == {<<>>} \cup { <<s>> : s \in PipeSnaps }

\* a pipeline run over up to MaxChain clips
InitChain ==
    /\ \E n \in 1..MaxChain :
         /\ policy \in [1..n -> {0, 1}]
         /\ traces \in [1..n -> ChainClips]
         /\ fs = [f \in PipeFiles(n) |-> MissingFile]
    /\ shadow_map \in Tables \ {{}}
    /\ clip_i = 1
    /\ prev_shadowed = "None"
    /\ ppc = "stageA"
    /\ engine = "none"
    /\ argv = [prev |-> "None", new |-> "None", out |-> "None"]
    /\ InitEngineLocals
    /\ InitTableGiven
    /\ InitNoFlow
    /\ pc = "idle"

SpecChain == InitChain /\ [][NextPipe]_vars

\* the traces of a mixed-policy run: up to MaxMixedLen snapshots for an OR
\* clip, one snapshot for an AND clip
MixedClips(pol) ==
    UNION { [1..l -> PipeSnaps] : l \in 1..(IF pol = 0 THEN MaxMixedLen ELSE 1) }

\* a pipeline run of up to MaxChain clips whose first clip is an OR clip and
\* that has an AND clip
InitMixed ==
    /\ \E n \in 2..MaxChain :
         /\ policy \in [1..n -> {0, 1}]
         /\ policy[1] = 0
         /\ \E i \in 2..n : policy[i] = 1
         /\ traces \in [1..n -> UNION {MixedClips(pol) : pol \in {0, 1}}]
         /\ \A i \in 1..n : traces[i] \in MixedClips(policy[i])
         /\ fs = [f \in PipeFiles(n) |-> MissingFile]
    /\ shadow_map = {<<10, 20>>, <<11, 21>>}
    /\ clip_i = 1
    /\ prev_shadowed = "None"
    /\ ppc = "stageA"
    /\ engine = "none"
    /\ argv = [prev |-> "None", new |-> "None", out |-> "None"]
    /\ InitEngineLocals
    /\ InitTableGiven
    /\ InitNoFlow
    /\ pc = "idle"

SpecMixed == InitMixed /\ [][NextPipe]_vars

\* make_shadow_btor(base_btor), when --btor2 is given: shadow_creator.py is run
\* and exits with success or with failure; a failure is raised by run() and
\* ends main.  The file it writes is read by the engines for the pair table.
PipeMakeShadowBtor ==
    /\ ppc = "btor"
    /\ \E ok \in BOOLEAN : ppc' = IF ok THEN "stageA" ELSE "error"
    /\ UNCHANGED <<fs, policy, traces, clip_i, prev_shadowed>>
    /\ UNCHANGED parse_vars
    /\ UNCHANGED flow_vars
    /\ UNCHANGED engine_vars

\* Stage A when the vcd-to-pex command exits with failure: run() raises and
\* main ends
PipeVcdToPexFails ==
    /\ ppc = "stageA"
    /\ ppc' = "error"
    /\ UNCHANGED <<fs, policy, traces, clip_i, prev_shadowed>>
    /\ UNCHANGED parse_vars
    /\ UNCHANGED flow_vars
    /\ UNCHANGED engine_vars

\* an engine whose pair table file cannot be opened: parse_shadow_mapping
\* raises before any trace is read and the engine exits with failure
ParseShadowMappingRaises ==
    /\ pc = "start"
    /\ pc' = "error"
    /\ UNCHANGED <<fs, engine, argv, shadow_map, data, idx, first, prev_vals,
                   shadow_latched, active>>
    /\ UNCHANGED pipe_vars
    /\ UNCHANGED parse_vars
    /\ UNCHANGED flow_vars

\* a pipeline run with or without --btor2 in which the stage commands may fail
InitFail ==
    /\ \E n \in 1..MaxChain :
         /\ policy \in [1..n -> {0, 1}]
         /\ traces \in [1..n -> ChainClips]
         /\ fs = [f \in PipeFiles(n) |-> MissingFile]
    /\ shadow_map = {<<10, 20>>, <<11, 21>>}
    /\ clip_i = 1
    /\ prev_shadowed = "None"
    /\ ppc \in {"btor", "stageA"}
    /\ engine = "none"
    /\ argv = [prev |-> "None", new |-> "None", out |-> "None"]
    /\ InitEngineLocals
    /\ InitTableGiven
    /\ InitNoFlow
    /\ pc = "idle"

NextFail ==
    \/ PipeMakeShadowBtor
    \/ PipeVcdToPex
    \/ PipeVcdToPexFails
    \/ PipeShadow
    \/ ParseShadowMappingRaises
    \/ PipeReturn
    \/ OrStart
    \/ OrSnapshot
    \/ OrDump
    \/ AndStart
    \/ AndSnapshot
    \/ AndDump

SpecFail == InitFail /\ [][NextFail]_vars

----------------------------------------------------------------------------
(* The pair table parsers of pex_shadow_v2.py and pex_shadow2_v2.py        *)
(*                                                                         *)
(* A line of the file is the list line.strip().split() of its tokens; a    *)
(* token is the list of its characters.  A keyword or the prefix of a      *)
(* name ("state", "input", "shadow_") counts as one character.             *)

Digits == {"0", "1", "2", "3", "4", "5", "6", "7", "8", "9"}

DigitVal(c) ==
    CASE c = "0" -> 0 [] c = "1" -> 1 [] c = "2" -> 2 [] c = "3" -> 3
      [] c = "4" -> 4 [] c = "5" -> 5 [] c = "6" -> 6 [] c = "7" -> 7
      [] c = "8" -> 8 [] c = "9" -> 9

\* t.isdigit()
IsDigit(t) == Len(t) > 0 /\ \A i \in 1..Len(t) : t[i] \in Digits

\* t.lstrip('-')
RECURSIVE LstripMinus(_)
LstripMinus(t) ==
    IF t # <<>> /\ Head(t) = "-" THEN LstripMinus(Tail(t)) ELSE t

\* int(t) raises ValueError unless t is one optional sign and digits
IntRaises(t) ==
    ~IsDigit(IF t # <<>> /\ Head(t) \in {"-", "+"} THEN Tail(t) ELSE t)

RECURSIVE DecimalValue(_)
DecimalValue(t) ==
    IF t = <<>> THEN 0
    ELSE 10 * DecimalValue(SubSeq(t, 1, Len(t) - 1)) + DigitVal(t[Len(t)])

\* int(t), for t that int() accepts
IntOf(t) ==
    IF Head(t) = "-" THEN 0 - DecimalValue(Tail(t))
    ELSE IF Head(t) = "+" THEN DecimalValue(Tail(t))
    ELSE DecimalValue(t)

\* the lines of the pair table files
LineUniverse ==
    { <<>>,                                                \* blank
      << <<"1","0">>, <<"5">>, <<"2","0">> >>,             \* 10 5 20
      << <<"1","1">>, <<"5">>, <<"2","1">> >>,             \* 11 5 21
      << <<"-","3">>, <<"5">>, <<"2","0">> >>,             \* -3 5 20
      << <<"1","0">>, <<"2","0">> >>,                      \* 10 20
      << <<"1","0">>, <<"5">>, <<"2","0">>, <<"7">> >>,    \* 10 5 20 7
      << <<"x">>, <<"5">>, <<"2","0">> >>,                 \* x 5 20
      << <<"1","0">>, <<"x">>, <<"2","0">> >>,             \* 10 x 20
      << <<"1","0">>, <<"5">>, <<"x">> >>,                 \* 10 5 x
      << <<"-","-","5">>, <<"5">>, <<"2","0">> >>,         \* --5 5 20
      << <<";","c">> >>,                                   \* ;c
      << <<"3">>, <<"state">>, <<"1">>, <<"a">> >>,        \* 3 state 1 a
      << <<"4">>, <<"state">>, <<"1">>, <<"shadow_","a">> >> }

MappingFiles == UNION { [1..n -> LineUniverse] : n \in 0..MaxLines }

\* pex_shadow_v2, one line: what is appended to pairs, or ValueError
CommonLine(line) ==
    IF line = <<>> \/ Len(line) # 3
    THEN [raises |-> FALSE, add |-> <<>>]
    ELSE IF IntRaises(line[1]) \/ IntRaises(line[3])
    THEN [raises |-> TRUE, add |-> <<>>]
    ELSE [raises |-> FALSE, add |-> << <<IntOf(line[1]), IntOf(line[3])>> >>]

\* pex_shadow2_v2, one line: what is appended to triple_lines, or ValueError
TripleLine(line) ==
    IF line = <<>> \/ Head(Head(line)) = ";"
    THEN [raises |-> FALSE, add |-> <<>>]
    ELSE IF Len(line) = 3 /\ \A i \in 1..3 : IsDigit(LstripMinus(line[i]))
    THEN IF IntRaises(line[1]) \/ IntRaises(line[3])
         THEN [raises |-> TRUE, add |-> <<>>]
         ELSE [raises |-> FALSE, add |-> << <<IntOf(line[1]), IntOf(line[3])>> >>]
    ELSE [raises |-> FALSE, add |-> <<>>]

\* mapping[gate_id] = shadow_id for each triple in turn: the last one stays
DictOfPairs(ps) ==
    { ps[i] : i \in { j \in 1..Len(ps) :
                        \A k \in (j + 1)..Len(ps) : ps[k][1] # ps[j][1] } }

\* line_re matches: <digits> state|input <digits> <name>
BtorMatch(line) ==
    /\ Len(line) >= 4
    /\ Head(Head(line)) # ";"
    /\ IsDigit(line[1])
    /\ line[2] \in { <<"state">>, <<"input">> }
    /\ IsDigit(line[3])

\* m.group(3): the rest of the line without one leading backslash
BtorName(line) ==
    LET rest == SubSeq(line, 4, Len(line))
    IN  IF Head(rest[1]) = "\\" /\ (Len(rest[1]) > 1 \/ Len(rest) > 1)
        THEN <<Tail(rest[1])>> \o Tail(rest)
        ELSE rest

IsShadowName(name) == Head(name[1]) = "shadow_"

\* shadow_name[len("shadow_"):]
OrigOf(name) == <<Tail(name[1])>> \o Tail(name)

\* the dict name -> node id of lines 1..n: the shadow_ names, or the others
RECURSIVE NameToId(_, _, _)
NameToId(f, n, shadow) ==
    IF n = 0 THEN EmptyDict
    ELSE LET d == NameToId(f, n - 1, shadow)
         IN  IF BtorMatch(f[n]) /\ IsShadowName(BtorName(f[n])) = shadow
             THEN Put(d, BtorName(f[n]), IntOf(f[n][1]))
             ELSE d

\* the fallback of pex_shadow2_v2: pair the node named shadow_<x> with the
\* node named <x>
BtorScan(f) ==
    LET orig_name_to_id   == NameToId(f, Len(f), FALSE)
        shadow_name_to_id == NameToId(f, Len(f), TRUE)
    IN  { <<orig_name_to_id[OrigOf(sn)], shadow_name_to_id[sn]>> :
            sn \in { x \in DOMAIN shadow_name_to_id :
                       OrigOf(x) \in DOMAIN orig_name_to_id } }

\* one pass of the loop "for line in f"
ParseLine ==
    /\ mpc = "read"
    /\ lineno < Len(mapping_file)
    /\ LET line == mapping_file[lineno + 1]
           r == IF engine = "pex_shadow_v2" THEN CommonLine(line)
                ELSE TripleLine(line)
       IN  /\ pairs' = pairs \o r.add
           /\ mpc' = IF r.raises THEN "error" ELSE "read"
    /\ lineno' = lineno + 1
    /\ UNCHANGED <<mapping_file, shadow_map>>
    /\ UNCHANGED <<fs, engine, argv, data, idx, first, prev_vals,
                   shadow_latched, active, pc>>
    /\ UNCHANGED pipe_vars
    /\ UNCHANGED flow_vars

\* the end of the file: the parser returns the table
ParseReturn ==
    /\ mpc = "read"
    /\ lineno = Len(mapping_file)
    /\ shadow_map' =
         IF engine = "pex_shadow_v2" THEN { pairs[i] : i \in 1..Len(pairs) }
         ELSE IF pairs # <<>> THEN DictOfPairs(pairs)
         ELSE BtorScan(mapping_file)
    /\ mpc' = "done"
    /\ UNCHANGED <<mapping_file, lineno, pairs>>
    /\ UNCHANGED <<fs, engine, argv, data, idx, first, prev_vals,
                   shadow_latched, active, pc>>
    /\ UNCHANGED pipe_vars
    /\ UNCHANGED flow_vars

InitParse ==
    /\ engine \in {"pex_shadow_v2", "pex_shadow2_v2"}
    /\ mapping_file \in MappingFiles
    /\ lineno = 0
    /\ pairs = <<>>
    /\ mpc = "read"
    /\ shadow_map = {}
    /\ argv = [prev |-> "prev.yaml", new |-> "new.yaml", out |-> "out.yaml"]
    /\ fs = [n \in {"prev.yaml", "new.yaml", "out.yaml"} |-> MissingFile]
    /\ InitEngineLocals
    /\ pc = "idle"
    /\ policy = <<>>
    /\ traces = <<>>
    /\ clip_i = 0
    /\ prev_shadowed = "None"
    /\ ppc = "off"
    /\ InitNoFlow

NextParse ==
    \/ ParseLine
    \/ ParseReturn

SpecParse == InitParse /\ [][NextParse]_vars

----------------------------------------------------------------------------
(* An AND engine continuing a previous output of several snapshots *)

\* snapshots of a previous output that come before its last one
EarlierSnaps ==
    { [model |-> (10 :> v) @@ (11 :> 0) @@ (20 :> 1 - v) @@ (21 :> 1),
       is_start |-> FALSE] : v \in {0, 1} }

\* what a previous output holds before its last snapshot
PrevPrefixes == UNION { [1..n -> EarlierSnaps] : n \in 0..(MaxPrevLen - 1) }

InitSeed ==
    /\ engine \in AndEngines
    /\ shadow_map \in Tables \ {{}}
    /\ argv = [prev |-> "prev.yaml", new |-> "new.yaml", out |-> "out.yaml"]
    /\ \E c \in Clips(MaxSeedClipLen), q \in PrevPrefixes, s \in SeedUniverse :
         fs = [n \in {"prev.yaml", "new.yaml", "out.yaml"} |->
                 IF n = "new.yaml" THEN File(c)
                 ELSE IF n = "prev.yaml" THEN File(q \o <<s>>) ELSE MissingFile]
    /\ InitEngineLocals
    /\ InitTableGiven
    /\ InitNoFlow
    /\ pc = "start"
    /\ policy = <<>>
    /\ traces = <<>>
    /\ clip_i = 0
    /\ prev_shadowed = "None"
    /\ ppc = "off"

NextSeed ==
    \/ AndStart
    \/ AndSnapshot
    \/ AndDump

SpecSeed == InitSeed /\ [][NextSeed]_vars

----------------------------------------------------------------------------
(* Pair tables in which an id occurs in two pairs *)

\* two shadows for one monitored id (a pair list of pex_shadow_v2 only: the
\* other engines keep the table in a dict keyed by the monitored id), and one
\* shadow for two monitored ids
DupTables == { {<<10, 20>>, <<10, 21>>}, {<<10, 20>>, <<11, 20>>} }

\* the monitored ids of the pairs of sm are pairwise different
UniqueMonitored(sm) == \A p, q \in sm : p[1] = q[1] => p = q

InitDup ==
    /\ engine \in OrEngines \cup AndEngines
    /\ shadow_map \in DupTables
    /\ engine # "pex_shadow_v2" => UniqueMonitored(shadow_map)
    /\ argv = [prev |-> "prev.yaml", new |-> "new.yaml", out |-> "out.yaml"]
    /\ \E c \in Clips(MaxLen), s \in SeedUniverse :
         fs = [n \in {"prev.yaml", "new.yaml", "out.yaml"} |->
                 IF n = "new.yaml" THEN File(c)
                 ELSE IF n = "prev.yaml" /\ engine \in AndEngines THEN File(<<s>>)
                 ELSE MissingFile]
    /\ InitEngineLocals
    /\ InitTableGiven
    /\ InitNoFlow
    /\ pc = "start"
    /\ policy = <<>>
    /\ traces = <<>>
    /\ clip_i = 0
    /\ prev_shadowed = "None"
    /\ ppc = "off"

SpecDup == InitDup /\ [][Next]_vars

----------------------------------------------------------------------------
(* run_formal_flow.py *)

\* the step registry: id, and whether func runs a command (run_command)
FLOW == [k \in 1..8 |-> [id |-> k, runs_command |-> k # 1]]

\* limit = args.step_limit if args.step_limit is not None else 999
Limit == IF flow_args.has_limit THEN flow_args.step_limit ELSE 999

\* main up to the loop: --list-steps returns, a missing input file exits
FlowBegin ==
    /\ fpc = "main"
    /\ fpc' = IF flow_args.list_steps THEN "returned"
              ELSE IF ~flow_args.input_exists THEN "exit1"
              ELSE "loop"
    /\ flow_i' = 1
    /\ UNCHANGED <<flow_args, started, failed>>
    /\ UNCHANGED <<fs, pipe_vars, parse_vars>>
    /\ UNCHANGED engine_vars

\* head of "for step in FLOW": the loop ends, breaks at the limit, or calls
\* step['func']
FlowStep ==
    /\ fpc = "loop"
    /\ IF flow_i > Len(FLOW) \/ FLOW[flow_i].id > Limit
       THEN /\ fpc' = "complete"
            /\ started' = started
       ELSE /\ fpc' = "func"
            /\ started' = Append(started, FLOW[flow_i].id)
    /\ UNCHANGED <<flow_args, flow_i, failed>>
    /\ UNCHANGED <<fs, pipe_vars, parse_vars>>
    /\ UNCHANGED engine_vars

\* FlowReturn that goes on with the next step after a failed command
FlowReturn_goon ==
    /\ fpc = "func"
    /\ \E r \in IF FLOW[flow_i].runs_command THEN {"ok", "failed", "raised"} ELSE {"ok"} :
         /\ fpc' = "loop"
         /\ failed' = IF r = "ok" THEN failed ELSE failed \cup {FLOW[flow_i].id}
    /\ flow_i' = flow_i + 1
    /\ UNCHANGED <<flow_args, started>>
    /\ UNCHANGED <<fs, pipe_vars, parse_vars>>
    /\ UNCHANGED engine_vars

\* step['func']() ends: the command succeeded, failed (CalledProcessError:
\* sys.exit(1)), or could not be run at all (an exception main does not catch)
FlowReturn ==
    /\ fpc = "func"
    /\ \E r \in IF FLOW[flow_i].runs_command THEN {"ok", "failed", "raised"} ELSE {"ok"} :
         /\ fpc' = IF r = "ok" THEN "loop" ELSE IF r = "failed" THEN "exit1" ELSE "raised"
         /\ failed' = IF r = "ok" THEN failed ELSE failed \cup {FLOW[flow_i].id}
         /\ flow_i' = IF r = "ok" THEN flow_i + 1 ELSE flow_i
    /\ UNCHANGED <<flow_args, started>>
    /\ UNCHANGED <<fs, pipe_vars, parse_vars>>
    /\ UNCHANGED engine_vars

InitFlow ==
    /\ flow_args \in [has_limit : BOOLEAN, step_limit : 0..MaxLimit,
                       list_steps : BOOLEAN, input_exists : BOOLEAN]
    /\ ~flow_args.has_limit => flow_args.step_limit = 0
    /\ flow_i = 0
    /\ started = <<>>
    /\ failed = {}
    /\ fpc = "main"
    /\ engine = "none"
    /\ shadow_map = {}
    /\ argv = [prev |-> "None", new |-> "None", out |-> "None"]
    /\ fs = [n \in {"combined_converted.v"} |->
               IF flow_args.input_exists THEN File(<<>>) ELSE MissingFile]
    /\ InitEngineLocals
    /\ InitTableGiven
    /\ pc = "idle"
    /\ policy = <<>>
    /\ traces = <<>>
    /\ clip_i = 0
    /\ prev_shadowed = "None"
    /\ ppc = "off"

NextFlow ==
    \/ FlowBegin
    \/ FlowStep
    \/ FlowReturn

SpecFlow == InitFlow /\ [][NextFlow]_vars

----------------------------------------------------------------------------
(* Properties *)

\* the trace an engine was given and the trace it wrote
NewTrace == fs[argv.new].data
OutTrace == fs[argv.out].data
PrevTrace == fs[argv.prev].data

OrDone == pc = "done" /\ engine \in OrEngines
AndDone == pc = "done" /\ engine \in AndEngines

\* snapshot snap has an entry v for node id
Shows(snap, id, v) == id \in DOMAIN snap.model /\ snap.model[id] = v

\* value of a monitored id in a snapshot, absent read as 0
Mon(snap, oid) == Get(snap.model, oid, 0)

\* the monitored value of oid in snapshot j of tr differs from snapshot j-1
ChangedAt(tr, oid, j) == Mon(tr[j], oid) # Mon(tr[j - 1], oid)

\* C1: OR monotonicity.  In the trace written by one run of an OR engine,
\* a shadow id that shows 1 in snapshot k shows 1 in every later snapshot.
OrMonotone ==
    OrDone =>
        \A p \in shadow_map : \A k \in 1..Len(OutTrace) : \A l \in (k + 1)..Len(OutTrace) :
            Shows(OutTrace[k], p[2], 1) => Shows(OutTrace[l], p[2], 1)

\* a run in which shadow 20 latches on the second snapshot and the monitored
\* value does not change again on the third
OrMonotoneWitness ==
    /\ OrDone
    /\ <<10, 20>> \in shadow_map
    /\ Len(OutTrace) = 3
    /\ Shows(OutTrace[1], 20, 0)
    /\ Shows(OutTrace[2], 20, 1)
    /\ ~ChangedAt(NewTrace, 10, 3)
    /\ Shows(OutTrace[3], 20, 1)

\* C2: AND monotonicity.  In the trace written by one run of an AND engine,
\* a shadow id that shows 0 in snapshot k shows 0 in every later snapshot.
AndMonotone ==
    AndDone =>
        \A p \in shadow_map : \A k \in 1..Len(OutTrace) : \A l \in (k + 1)..Len(OutTrace) :
            Shows(OutTrace[k], p[2], 0) => Shows(OutTrace[l], p[2], 0)

\* a run in which shadow 20 decays on the second snapshot and the monitored
\* value does not change again on the third
AndMonotoneWitness ==
    /\ AndDone
    /\ <<10, 20>> \in shadow_map
    /\ Len(OutTrace) = 3
    /\ Shows(OutTrace[1], 20, 1)
    /\ Shows(OutTrace[2], 20, 0)
    /\ ~ChangedAt(NewTrace, 10, 3)
    /\ Shows(OutTrace[3], 20, 0)

\* C3: OR result.  In the trace written by a fresh OR run, the shadow of a
\* pair shows 1 in snapshot k exactly if the monitored value of some snapshot
\* j in 2..k differs from that of snapshot j-1 (absent read as 0), and shows
\* 0 otherwise.
OrResult ==
    OrDone =>
        /\ Len(OutTrace) = Len(NewTrace)
        /\ \A p \in shadow_map : \A k \in 1..Len(OutTrace) :
             Shows(OutTrace[k], p[2],
                   IF \E j \in 2..k : ChangedAt(NewTrace, p[1], j) THEN 1 ELSE 0)

\* monitored values 0, 0, 1 of id 10 give shadows 0, 0, 1 of id 20 (the
\* first three snapshots of Scenario A)
OrResultWitness ==
    /\ OrDone
    /\ <<10, 20>> \in shadow_map
    /\ Len(NewTrace) = 3
    /\ Shows(NewTrace[1], 10, 0) /\ Shows(NewTrace[2], 10, 0) /\ Shows(NewTrace[3], 10, 1)
    /\ Shows(OutTrace[1], 20, 0) /\ Shows(OutTrace[2], 20, 0) /\ Shows(OutTrace[3], 20, 1)

\* the previous output holds a last snapshot
HasSeed == fs[argv.prev].exists /\ PrevTrace # <<>>
SeedModel == PrevTrace[Len(PrevTrace)].model

\* values the AND engines start from: those of the last snapshot of the
\* previous output, or the defaults when it has none
SeedMon(oid) == IF HasSeed THEN Get(SeedModel, oid, 0) ELSE 0
SeedShadow(sid) == IF HasSeed THEN Get(SeedModel, sid, 1) ELSE 1

\* the monitored value of oid in snapshot j of the new trace differs from its
\* value in snapshot j-1, snapshot 0 standing for the last snapshot of the
\* previous output
ChangedFromSeed(oid, j) ==
    Mon(NewTrace[j], oid) # (IF j = 1 THEN SeedMon(oid) ELSE Mon(NewTrace[j - 1], oid))

\* C4: AND result.  In the trace written by an AND run seeded from the last
\* snapshot P of a previous output, the shadow of a pair shows 0 in snapshot
\* k if the monitored value of some snapshot j in 1..k differs from that of
\* snapshot j-1 (snapshot 0 being P), and otherwise shows the seed shadow
\* value read from P.
AndResult ==
    (AndDone /\ HasSeed) =>
        /\ Len(OutTrace) = Len(NewTrace)
        /\ \A p \in shadow_map : \A k \in 1..Len(OutTrace) :
             Shows(OutTrace[k], p[2],
                   IF \E j \in 1..k : ChangedFromSeed(p[1], j)
                   THEN 0 ELSE SeedShadow(p[2]))

\* C4 restricted to seeds whose shadow entries are 0, 1 or absent: this part
\* of the claim holds of the code
AndResultBinarySeed ==
    (AndDone /\ HasSeed /\ \A p \in shadow_map : SeedShadow(p[2]) \in {0, 1}) =>
        \A p \in shadow_map : \A k \in 1..Len(OutTrace) :
            Shows(OutTrace[k], p[2],
                  IF \E j \in 1..k : ChangedFromSeed(p[1], j)
                  THEN 0 ELSE SeedShadow(p[2]))

\* C5: composability under AND.  For every split of the new trace into two
\* non-empty clips C1 ++ C2, running the AND engine on C1 seeded from P and
\* then on C2 seeded from the output of C1 gives every pair the final shadow
\* value that the single run over C1 ++ C2 seeded from P wrote.
AndComposable ==
    (AndDone /\ HasSeed) =>
        \A s \in 1..(Len(NewTrace) - 1) :
            LET c1 == SubSeq(NewTrace, 1, s)
                c2 == SubSeq(NewTrace, s + 1, Len(NewTrace))
                o1 == AndRun(engine, fs[argv.prev], c1, shadow_map)
                o2 == AndRun(engine, File(o1), c2, shadow_map)
            IN  \A p \in shadow_map :
                    o2[Len(o2)].model[p[2]] = OutTrace[Len(OutTrace)].model[p[2]]

\* C5 restricted to seeds whose shadow entries are 0, 1 or absent: this part
\* of the claim holds of the code
AndComposableBinarySeed ==
    (\A p \in shadow_map : SeedShadow(p[2]) \in {0, 1}) => AndComposable

\* C6: composability under OR.  When the pipeline has processed two clips
\* under policy list 0,0, the final snapshot of the second shadowed clip
\* gives every pair the shadow value that one OR run over the concatenation
\* of the two clips gives it in its final snapshot.
OrComposable ==
    (ppc = "done" /\ policy = <<0, 0>>) =>
        LET whole == OrRun(traces[1] \o traces[2], shadow_map)
            split == fs[OutShadow(2)].data
        IN  \A p \in shadow_map :
                split[Len(split)].model[p[2]] = whole[Len(whole)].model[p[2]]

\* C7: the OR latch survives clip boundaries.  In a pipeline run, when a
\* shadow shows 1 in the last snapshot of the previous shadowed clip, it
\* shows 1 in every snapshot of the shadowed output of the next OR clip.
OrLatchSurvives ==
    \A i \in 2..Len(policy) :
        (policy[i] = 0 /\ fs[OutShadow(i)].exists) =>
            LET before == fs[OutShadow(i - 1)].data
                after == fs[OutShadow(i)].data
            IN  \A p \in shadow_map :
                    Shows(before[Len(before)], p[2], 1) =>
                        \A k \in 1..Len(after) : Shows(after[k], p[2], 1)

\* C8: the AND latch survives clip boundaries.  When a shadow shows 0 in the
\* last snapshot of the previous output, it shows 0 in every snapshot the
\* AND engine writes for the next clip, whatever the monitored values are.
AndLatchSurvives ==
    (AndDone /\ HasSeed) =>
        /\ Len(OutTrace) = Len(NewTrace)
        /\ \A p \in shadow_map :
             (p[2] \in DOMAIN SeedModel /\ SeedModel[p[2]] = 0) =>
                 \A k \in 1..Len(OutTrace) : Shows(OutTrace[k], p[2], 0)

\* shadow 20 is seeded 0, the monitored value is steady over the boundary
\* and changes inside the clip, and every output snapshot shows 0
AndLatchSurvivesWitness ==
    /\ AndDone
    /\ HasSeed
    /\ <<10, 20>> \in shadow_map
    /\ 20 \in DOMAIN SeedModel /\ SeedModel[20] = 0
    /\ Len(OutTrace) = 3
    /\ ~ChangedFromSeed(10, 1)
    /\ ChangedAt(NewTrace, 10, 2)
    /\ \A k \in 1..3 : Shows(OutTrace[k], 20, 0)

\* the monitored value of oid is the same in every snapshot of the new trace
Steady(oid) ==
    \A k, l \in 1..Len(NewTrace) : Mon(NewTrace[k], oid) = Mon(NewTrace[l], oid)

\* the value a shadow starts a run with: 0 in the OR engines, the seed
\* shadow value (1 by default) in the AND engines
StartShadow(sid) == IF engine \in OrEngines THEN 0 ELSE SeedShadow(sid)

\* C9: no-change stability.  In either policy, when the monitored id of a
\* pair has the same value in every snapshot of the clip, every output
\* snapshot shows the value the shadow started the run with.
NoChangeStable ==
    pc = "done" =>
        \A p \in shadow_map :
            Steady(p[1]) =>
                \A k \in 1..Len(OutTrace) : Shows(OutTrace[k], p[2], StartShadow(p[2]))

\* C9 as amended: the same, where for an AND engine the steady value is also
\* the preceding value the run is seeded with (the previous last snapshot's
\* value of the monitored id, 0 if absent or defaulted).
NoChangeStableFromSeed ==
    pc = "done" =>
        \A p \in shadow_map :
            (/\ Steady(p[1])
             /\ (engine \in AndEngines /\ NewTrace # <<>>) => ~ChangedFromSeed(p[1], 1)) =>
                /\ Len(OutTrace) = Len(NewTrace)
                /\ \A k \in 1..Len(OutTrace) :
                     Shows(OutTrace[k], p[2], StartShadow(p[2]))

\* an AND run seeded with monitored value 1 and shadow 1 over a clip of
\* three snapshots that all hold 1: every output snapshot shows shadow 1
NoChangeStableWitness ==
    /\ AndDone
    /\ HasSeed
    /\ <<10, 20>> \in shadow_map
    /\ Shows(PrevTrace[Len(PrevTrace)], 10, 1)
    /\ Shows(PrevTrace[Len(PrevTrace)], 20, 1)
    /\ Len(NewTrace) = 3
    /\ \A k \in 1..3 : Shows(NewTrace[k], 10, 1)
    /\ \A k \in 1..3 : Shows(OutTrace[k], 20, 1)

\* C10: pass-through fidelity.  The trace an engine writes has as many
\* snapshots as the trace it read, in the same order, and snapshot k of it
\* differs from snapshot k of the input only in entries of shadow ids of the
\* pair table: is_start and every other key keep their input values.
PassThrough ==
    pc = "done" =>
        /\ Len(OutTrace) = Len(NewTrace)
        /\ \A k \in 1..Len(OutTrace) :
             /\ OutTrace[k].is_start = NewTrace[k].is_start
             /\ (DOMAIN OutTrace[k].model) \ ShadowIds(shadow_map)
                    = (DOMAIN NewTrace[k].model) \ ShadowIds(shadow_map)
             /\ \A id \in (DOMAIN NewTrace[k].model) \ ShadowIds(shadow_map) :
                    OutTrace[k].model[id] = NewTrace[k].model[id]

\* a snapshot with is_start set, a stale entry 1 under shadow id 20 and an
\* entry under id 11, which is in no pair: the shadow is overwritten with 0,
\* the rest is carried over
PassThroughWitness ==
    /\ pc = "done"
    /\ shadow_map = {<<10, 20>>}
    /\ Len(NewTrace) = 2
    /\ NewTrace[2].is_start /\ OutTrace[2].is_start
    /\ Shows(NewTrace[2], 11, 1) /\ Shows(OutTrace[2], 11, 1)
    /\ Shows(NewTrace[2], 20, 1) /\ Shows(OutTrace[2], 20, 0)

\* a trace without its entries under the shadow ids of the pair table sm
StripShadows(tr, sm) ==
    [k \in 1..Len(tr) |->
        [model |-> [id \in (DOMAIN tr[k].model) \ ShadowIds(sm) |-> tr[k].model[id]],
         is_start |-> tr[k].is_start]]

\* what the running engine writes for the new trace tr, seeded as it is
RunOn(tr) ==
    IF engine \in OrEngines THEN OrRun(tr, shadow_map)
    ELSE AndRun(engine, fs[argv.prev], tr, shadow_map)

\* C11: shadow overwrite.  Every snapshot an engine has folded holds, for
\* every shadow id of the table, the value latched when it was folded (the
\* one just folded holds the current latched values), the dumped trace is
\* the folded one, and it is the trace the engine writes for the input
\* stripped of its shadow-id entries.
ShadowOverwrite ==
    /\ (pc = "loop" /\ idx >= 1) =>
           \A sid \in ShadowIds(shadow_map) :
               Shows(data[idx], sid, shadow_latched[sid])
    /\ pc = "done" =>
           /\ \A k \in 1..Len(OutTrace) : \A sid \in ShadowIds(shadow_map) :
                  sid \in DOMAIN OutTrace[k].model
           /\ Len(data) >= 1 => OutTrace = data
           /\ OutTrace = RunOn(StripShadows(NewTrace, shadow_map))

\* the input held a stale 1 under shadow id 20 in its second snapshot; the
\* engine has just folded it and wrote the latched 0 over it
ShadowOverwriteWitness ==
    /\ pc = "loop"
    /\ idx = 2
    /\ <<10, 20>> \in shadow_map
    /\ Shows(NewTrace[2], 20, 1)
    /\ shadow_latched[20] = 0
    /\ Shows(data[2], 20, 0)

\* C12: OR first snapshot.  Once a fresh OR run has folded its first
\* snapshot, that snapshot shows 0 for every shadow, every pair is still in
\* the active set with latched value 0, and the preceding value of every
\* monitored id is the snapshot's value (0 if absent); the dumped trace
\* shows 0 for every shadow in its first snapshot.
OrFirstSnapshot ==
    /\ (engine \in OrEngines /\ pc = "loop" /\ idx = 1) =>
           /\ ~first
           /\ active = shadow_map
           /\ \A p \in shadow_map :
                /\ Shows(data[1], p[2], 0)
                /\ shadow_latched[p[2]] = 0
                /\ p[1] \in DOMAIN prev_vals
                /\ prev_vals[p[1]] = Mon(NewTrace[1], p[1])
    /\ (OrDone /\ Len(OutTrace) >= 1) =>
           \A p \in shadow_map : Shows(OutTrace[1], p[2], 0)

\* the first snapshot holds 1 for monitored id 10 and a stale 1 under shadow
\* id 20: shadow 0 is written and 1 is recorded as the preceding value
OrFirstSnapshotWitness ==
    /\ engine \in OrEngines
    /\ pc = "loop"
    /\ idx = 1
    /\ <<10, 20>> \in shadow_map
    /\ Shows(NewTrace[1], 10, 1)
    /\ Shows(NewTrace[1], 20, 1)
    /\ Shows(data[1], 20, 0)
    /\ prev_vals[10] = 1

\* a trace in which every monitored id of sm that has no entry gets the
\* entry 0
FillMonitored(tr, sm) ==
    [k \in 1..Len(tr) |->
        [model |-> [id \in (DOMAIN tr[k].model) \cup OrigIds(sm) |->
                      Get(tr[k].model, id, 0)],
         is_start |-> tr[k].is_start]]

\* what the running engine writes when every missing monitored entry of the
\* new trace and of the previous output is replaced by an explicit 0
RunFilled ==
    IF engine \in OrEngines
    THEN OrRun(FillMonitored(NewTrace, shadow_map), shadow_map)
    ELSE AndRun(engine,
                [exists |-> fs[argv.prev].exists,
                 data |-> FillMonitored(PrevTrace, shadow_map)],
                FillMonitored(NewTrace, shadow_map), shadow_map)

\* one of the dicts a, b has no entry for oid and the other holds a value
\* other than 0
AbsentVsNonzero(a, b, oid) ==
    \/ oid \notin DOMAIN a /\ Get(b, oid, 0) # 0
    \/ oid \notin DOMAIN b /\ Get(a, oid, 0) # 0

\* the dict that precedes snapshot k of the new trace: snapshot k-1, or for
\* the first snapshot of an AND run the last snapshot of the previous output
Preceding(k) ==
    IF k > 1 THEN NewTrace[k - 1].model
    ELSE IF HasSeed THEN SeedModel ELSE EmptyDict

\* C13: absent monitored key.  Replacing every missing monitored entry (of
\* the new trace and of the seed snapshot) by an explicit 0 changes no shadow
\* value of the written trace; and a step from absent to a nonzero value or
\* back flips a shadow that was still at its watching value (from the second
\* snapshot on in the OR engines, from the first in the AND engines).
AbsentIsZero ==
    /\ pc = "done" =>
           \A p \in shadow_map : \A k \in 1..Len(OutTrace) :
               OutTrace[k].model[p[2]] = RunFilled[k].model[p[2]]
    /\ (pc = "loop" /\ idx >= 1) =>
           \A p \in shadow_map :
               AbsentVsNonzero(Preceding(idx), NewTrace[idx].model, p[1]) =>
                   /\ (engine \in OrEngines /\ idx >= 2
                         /\ Shows(data[idx - 1], p[2], 0))
                        => Shows(data[idx], p[2], 1)
                   /\ (engine \in AndEngines
                         /\ (idx >= 2 => Shows(data[idx - 1], p[2], 1)))
                        => Shows(data[idx], p[2], 0)

\* an OR run over monitored values 0, absent, 1: the step to absent is no
\* change, the step from absent to 1 is one
AbsentIsZeroWitness ==
    /\ OrDone
    /\ <<10, 20>> \in shadow_map
    /\ Len(NewTrace) = 3
    /\ Shows(NewTrace[1], 10, 0)
    /\ 10 \notin DOMAIN NewTrace[2].model
    /\ Shows(NewTrace[3], 10, 1)
    /\ Shows(OutTrace[1], 20, 0) /\ Shows(OutTrace[2], 20, 0) /\ Shows(OutTrace[3], 20, 1)

\* C14: absent shadow seed under AND.  When the last snapshot of the
\* previous output has no entry for the shadow id of a pair, the AND engines
\* start the shadow at 1: the written trace shows 1 up to the first snapshot
\* whose monitored value differs from its predecessor and 0 from there on.
AbsentShadowSeed ==
    (AndDone /\ HasSeed) =>
        \A p \in shadow_map :
            p[2] \notin DOMAIN SeedModel =>
                \A k \in 1..Len(OutTrace) :
                    Shows(OutTrace[k], p[2],
                          IF \E j \in 1..k : ChangedFromSeed(p[1], j) THEN 0 ELSE 1)

\* the seed snapshot has no entry under 20; the monitored value first
\* changes at the second snapshot: shadows 1, 0, 0
AbsentShadowSeedWitness ==
    /\ AndDone
    /\ HasSeed
    /\ <<10, 20>> \in shadow_map
    /\ 20 \notin DOMAIN SeedModel
    /\ Len(NewTrace) = 3
    /\ ~ChangedFromSeed(10, 1)
    /\ ChangedFromSeed(10, 2)
    /\ Shows(OutTrace[1], 20, 1) /\ Shows(OutTrace[2], 20, 0) /\ Shows(OutTrace[3], 20, 0)

\* C15: empty pair table.  With an empty pair table every engine run ends
\* without error and the trace it writes is the trace it read.  (A run of
\* pex_shadow_2 needs a last snapshot in the previous output to start at
\* all, whatever the table is; that is the fatal case of section 7.)
EmptyTablePassThrough ==
    (shadow_map = {} /\ (engine = "pex_shadow_2" => HasSeed)) =>
        /\ pc # "error"
        /\ pc = "done" => (fs[argv.out].exists /\ OutTrace = NewTrace)

\* a finished run with an empty table over three snapshots, one of them with
\* is_start set and an entry under id 20, which is no shadow id here
EmptyTablePassThroughWitness ==
    /\ pc = "done"
    /\ shadow_map = {}
    /\ Len(NewTrace) = 3
    /\ NewTrace[1].is_start
    /\ Shows(NewTrace[1], 20, 1)
    /\ OutTrace = NewTrace

\* C16: empty clip.  For an empty new trace (and, for an AND engine, a
\* previous output that holds a last snapshot) the run does not fail, it
\* writes the empty trace, and the seed values the next clip reads from this
\* output are the seed values this run read from the previous output.
EmptyClipNeutral ==
    (NewTrace = <<>> /\ (engine \in AndEngines => HasSeed)) =>
        /\ pc # "error"
        /\ pc = "done" =>
             /\ OutTrace = <<>>
             /\ engine \in AndEngines =>
                    LoadLastSnapshot(engine, fs[argv.out], shadow_map)
                        = LoadLastSnapshot(engine, fs[argv.prev], shadow_map)

\* C16 without the latch state: the run does not fail and writes the empty
\* trace; this part of the claim holds of the code
EmptyClipOutput ==
    (NewTrace = <<>> /\ (engine = "pex_shadow_2" => HasSeed)) =>
        /\ pc # "error"
        /\ pc = "done" => (fs[argv.out].exists /\ OutTrace = <<>>)

\* C18: a missing previous clip is fatal for AND.  When an AND engine is run
\* and the previous output file does not exist, the run ends in an error: it
\* never folds a snapshot with default seeds and writes no output.
MissingPrevFatal ==
    (engine \in AndEngines /\ ~fs[argv.prev].exists) =>
        /\ pc \in {"start", "error"}
        /\ ~fs[argv.out].exists

\* C18 for pex_shadow_2 alone: this part of the claim holds of the code
MissingPrevFatalShadow2 ==
    (engine = "pex_shadow_2" /\ ~fs[argv.prev].exists) =>
        /\ pc \in {"start", "error"}
        /\ ~fs[argv.out].exists

\* C17: AND on the first clip is rejected.  A pipeline run whose policy list
\* starts with AND never gets past stage B of clip 1, where it stops in an
\* error: no engine is ever started and no shadowed output is written for
\* any clip.  In any run, an AND engine that has been started was given an
\* existing shadowed output of a previous clip.
AndFirstRejected ==
    /\ policy[1] = 1 =>
           /\ ppc \in {"stageA", "stageB", "error"}
           /\ ppc = "error" \/ ENABLED NextPipe
           /\ clip_i = 1
           /\ engine = "none"
           /\ pc = "idle"
           /\ \A i \in 1..Len(policy) : ~fs[OutShadow(i)].exists
    /\ (engine \in AndEngines /\ pc # "idle") =>
           /\ \E i \in 1..(clip_i - 1) : argv.prev = OutShadow(i)
           /\ fs[argv.prev].exists

\* the run with policy list 1,0 has stopped in the error of clip 1, after
\* vcd_to_pex wrote the trace of clip 1
AndFirstRejectedWitness ==
    /\ policy = <<1, 0>>
    /\ ppc = "error"
    /\ fs["pex.yaml"].exists
    /\ pc = "idle"

\* the lines the pair table is made of: three integer fields
WellFormedLine(line) ==
    Len(line) = 3 /\ \A i \in 1..3 : ~IntRaises(line[i])

\* the pairs (gate_id, shadow_id) of the well-formed lines of file f
PairsOfWellFormed(f) ==
    { <<IntOf(f[i][1]), IntOf(f[i][3])>> :
        i \in { j \in 1..Len(f) : WellFormedLine(f[j]) } }

\* C19: malformed pair table entries are dropped one by one.  Loading a
\* pair table file never fails, and the table it returns holds exactly the
\* pairs of the lines with three integer fields.
MalformedDropped ==
    /\ mpc # "error"
    /\ mpc = "done" => shadow_map = PairsOfWellFormed(mapping_file)

\* C20: continuity depends only on the last snapshot.  The output of an AND
\* engine is the one it writes for any other previous output that ends in
\* the same snapshot, whatever snapshots come before it and however many:
\* same new clip, same pair table.
LastSnapshotOnly ==
    AndDone =>
        \A q \in PrevPrefixes :
            OutTrace = AndRun(engine, File(q \o <<PrevTrace[Len(PrevTrace)]>>),
                              NewTrace, shadow_map)

\* a run on a previous output of two snapshots whose first snapshot, had it
\* been the seed, gives another output
LastSnapshotOnlyWitness ==
    /\ AndDone
    /\ Len(PrevTrace) = 2
    /\ NewTrace # <<>>
    /\ OutTrace # AndRun(engine, File(<<PrevTrace[1]>>), NewTrace, shadow_map)

\* the reference OR engine: no active set.  On the first snapshot every
\* shadow is 0; on every later snapshot every pair of sm is evaluated, a
\* shadow whose monitored value differs from the preceding one is latched at
\* 1, and every latched value is written.
RECURSIVE RefOrFold(_, _, _)
RefOrFold(d, n, sm) ==
    IF n = 0
    THEN [data |-> d, prev |-> [oid \in OrigIds(sm) |-> 0],
          latched |-> [sid \in ShadowIds(sm) |-> 0]]
    ELSE LET s == RefOrFold(d, n - 1, sm)
             m == s.data[n].model
             latched == IF n = 1 THEN s.latched
                        ELSE [sid \in ShadowIds(sm) |->
                                IF \E p \in sm : p[2] = sid /\ Get(m, p[1], 0) # s.prev[p[1]]
                                THEN 1 ELSE s.latched[sid]]
         IN  [data |-> [s.data EXCEPT ![n].model =
                          [x \in (DOMAIN m) \cup ShadowIds(sm) |->
                              IF x \in ShadowIds(sm) THEN latched[x] ELSE m[x]]],
              prev |-> [oid \in OrigIds(sm) |-> Get(m, oid, 0)],
              latched |-> latched]

RefOrRun(d, sm) == RefOrFold(d, Len(d), sm).data

\* C21: the active-set optimisation is unobservable under OR.  Every
\* snapshot an OR engine has folded, and every snapshot of the trace it
\* writes, is the snapshot the reference OR engine (all pairs evaluated on
\* every snapshot after the first, every latched value written) gives for
\* the same table and input clip.
OrActiveSetUnobservable ==
    /\ (engine \in OrEngines /\ pc = "loop") =>
           \A k \in 1..idx : data[k].model = RefOrRun(NewTrace, shadow_map)[k].model
    /\ OrDone =>
           /\ Len(OutTrace) = Len(NewTrace)
           /\ \A k \in 1..Len(OutTrace) :
                OutTrace[k] = RefOrRun(NewTrace, shadow_map)[k]

\* pair (10,20) latched on snapshot 2 and left the active set; the monitored
\* value changes again on snapshot 3, where the engine no longer visits it
OrActiveSetUnobservableWitness ==
    /\ OrDone
    /\ <<10, 20>> \in shadow_map
    /\ <<10, 20>> \notin active
    /\ Len(NewTrace) = 3
    /\ ChangedAt(NewTrace, 10, 2)
    /\ ChangedAt(NewTrace, 10, 3)
    /\ 20 \notin DOMAIN NewTrace[3].model
    /\ Shows(OutTrace[3], 20, 1)

\* the reference AND engine: no active set.  On every snapshot every pair of
\* sm is evaluated against the preceding value (for the first snapshot the
\* one of the seed), a shadow whose monitored value differs is set to 0, and
\* every shadow value is written.
RECURSIVE RefAndFold(_, _, _, _)
RefAndFold(d, n, sm, seed) ==
    IF n = 0
    THEN [data |-> d, prev |-> seed.prev_orig_vals, latched |-> seed.prev_shadow_vals]
    ELSE LET s == RefAndFold(d, n - 1, sm, seed)
             m == s.data[n].model
             latched == [sid \in ShadowIds(sm) |->
                           IF \E p \in sm : p[2] = sid /\ Get(m, p[1], 0) # s.prev[p[1]]
                           THEN 0 ELSE s.latched[sid]]
         IN  [data |-> [s.data EXCEPT ![n].model =
                          [x \in (DOMAIN m) \cup ShadowIds(sm) |->
                              IF x \in ShadowIds(sm) THEN latched[x] ELSE m[x]]],
              prev |-> [oid \in OrigIds(sm) |-> Get(m, oid, 0)],
              latched |-> latched]

RefAndRun(d, sm, seed) == RefAndFold(d, Len(d), sm, seed).data

\* C22: the active-set optimisation is unobservable under AND.  The trace
\* an AND engine writes, seeded from the last snapshot of a previous output
\* (any integers under the shadow ids), is snapshot by snapshot the trace of
\* the reference AND engine (all pairs evaluated on every snapshot, shadow
\* set to 0 on a difference) for the same table, seed and input clip.
AndActiveSetUnobservable ==
    (AndDone /\ HasSeed) =>
        /\ Len(OutTrace) = Len(NewTrace)
        /\ \A k \in 1..Len(OutTrace) :
             OutTrace[k] = RefAndRun(NewTrace, shadow_map,
                                     SeedFrom(SeedModel, shadow_map))[k]

\* C22 restricted to seeds whose shadow entries are 0, 1 or absent: this part
\* of the claim holds of the code
AndActiveSetUnobservableBinarySeed ==
    (AndDone /\ HasSeed /\ \A p \in shadow_map : SeedShadow(p[2]) \in {0, 1}) =>
        \A k \in 1..Len(OutTrace) :
            OutTrace[k] = RefAndRun(NewTrace, shadow_map,
                                    SeedFrom(SeedModel, shadow_map))[k]

\* C23: the preceding value tracks every snapshot.  In both policies, once
\* a snapshot has been folded, prev_vals holds for every monitored id of the
\* table, whether its pair is still in the active set or not, the value of
\* that snapshot (0 if absent).
PrecedingTracksSnapshot ==
    (pc \in {"loop", "done"} /\ idx >= 1) =>
        \A p \in shadow_map :
            /\ p[1] \in DOMAIN prev_vals
            /\ prev_vals[p[1]] = Mon(NewTrace[idx], p[1])

\* C23 for the pairs the snapshot was evaluated for: this part of the claim
\* holds of the code
PrecedingTracksVisited ==
    (pc \in {"loop", "done"} /\ idx >= 1) =>
        \A p \in shadow_map :
            p \in active => Get(prev_vals, p[1], 0) = Mon(NewTrace[idx], p[1])

\* C24: the watch set only shrinks.  While an engine folds a clip its active
\* set never gains a pair, and a pair whose shadow the seed snapshot of the
\* previous clip holds at 0 (settled under AND) is not in the active set the
\* next clip starts with.
WatchSetOnlyShrinks ==
    /\ [][pc = "loop" => active' \subseteq active]_vars
    /\ [](  (engine \in AndEngines /\ pc = "loop" /\ idx = 0 /\ HasSeed) =>
                \A p \in active : SeedShadow(p[2]) # 0  )

\* C24 within one clip: this part of the claim holds of the code
WatchSetShrinksInClip == [][pc = "loop" => active' \subseteq active]_vars

\* C25: causality of the fold.  The trace an engine writes for the first k
\* snapshots of its input clip (same table, same seed) is the first k
\* snapshots of the trace it writes for the whole clip, for every k; so two
\* clips that agree on their first k snapshots give outputs that agree on
\* their first k snapshots.
Causality ==
    pc = "done" =>
        \A k \in 0..Len(NewTrace) :
            RunOn(SubSeq(NewTrace, 1, k)) = SubSeq(OutTrace, 1, k)

\* a clip of three snapshots whose shadow 20 changes on the last one: the
\* run on the first two snapshots alone gives the first two output snapshots
CausalityWitness ==
    /\ pc = "done"
    /\ <<10, 20>> \in shadow_map
    /\ Len(NewTrace) = 3
    /\ OutTrace[3].model[20] # OutTrace[2].model[20]
    /\ OutTrace[3].is_start # OutTrace[2].is_start
    /\ RunOn(SubSeq(NewTrace, 1, 2)) = <<OutTrace[1], OutTrace[2]>>

\* C26: clips are processed strictly in sequence.  While the shadow stage
\* of a clip runs, the pipeline waits for it; the trace stage of that clip
\* has written its trace; the shadow stage of every earlier clip has written
\* its whole output and no later clip has an output; and an AND engine is
\* seeded from the shadowed output of the clip just before.
ClipsInSequence ==
    /\ pc # "idle" =>
           /\ ppc = "run"
           /\ argv.new = "pex.yaml"
           /\ argv.out = OutShadow(clip_i)
           /\ fs["pex.yaml"] = File(traces[clip_i])
           /\ \A j \in 1..(clip_i - 1) :
                /\ fs[OutShadow(j)].exists
                /\ Len(fs[OutShadow(j)].data) = Len(traces[j])
           /\ \A j \in (clip_i + 1)..Len(policy) : ~fs[OutShadow(j)].exists
           /\ engine \in AndEngines =>
                  /\ clip_i > 1
                  /\ argv.prev = OutShadow(clip_i - 1)
    /\ ppc = "stageB" => fs["pex.yaml"] = File(traces[clip_i])
    /\ ppc \in {"stageA", "stageB"} => ~fs[OutShadow(clip_i)].exists

\* the AND engine folds clip 3 seeded from the output of clip 2, while the
\* output of clip 1 is still on disk
ClipsInSequenceWitness ==
    /\ clip_i = 3
    /\ engine = "pex_shadow_2"
    /\ pc = "loop"
    /\ idx = 1
    /\ argv.prev = OutShadow(2)
    /\ fs[OutShadow(1)].exists
    /\ fs[OutShadow(1)].data # fs[OutShadow(2)].data

\* run_formal_flow has ended
FlowEnded == fpc \in {"returned", "exit1", "raised", "complete"}

\* the steps started so far are the steps 1, 2, ... in the order of their ids
StartedInOrder == \A k \in 1..Len(started) : started[k] = k

\* a step is started only while every step started before it has succeeded,
\* and once a step has not succeeded the flow has stopped at that step
StopsAtFailure ==
    /\ fpc \in {"loop", "func"} => failed = {}
    /\ failed # {} =>
           /\ fpc \in {"exit1", "raised"}
           /\ failed = {started[Len(started)]}

\* the steps started are exactly those with an id up to the limit
StartedUpToLimit ==
    {started[k] : k \in 1..Len(started)} = {FLOW[k].id : k \in {j \in 1..8 : FLOW[j].id <= Limit}}

\* C27: step ordering of run_formal_flow.  For every step limit the steps
\* are started in increasing id order, a run in which no step fails starts
\* exactly the steps with id up to the limit (all eight without a limit),
\* a step starts only after the one before it succeeded, and after a failed
\* step no later step is started.
FlowOrder ==
    /\ StartedInOrder
    /\ StopsAtFailure
    /\ (FlowEnded /\ failed = {}) => StartedUpToLimit

\* C27 as amended: the same for runs whose input file combined_converted.v
\* exists and that were not asked to list the steps; the other runs start no
\* step at all.
FlowOrderWhenRun ==
    /\ StartedInOrder
    /\ StopsAtFailure
    /\ (FlowEnded /\ failed = {}) =>
           IF flow_args.input_exists /\ ~flow_args.list_steps
           THEN StartedUpToLimit
           ELSE started = <<>>

\* with limit 5, step 3 fails: steps 1, 2, 3 were started and the flow has
\* exited
FlowOrderWhenRunWitness ==
    /\ flow_args.has_limit
    /\ flow_args.step_limit = 5
    /\ fpc = "exit1"
    /\ failed = {3}
    /\ started = <<1, 2, 3>>

\* C28: the output does not depend on the visiting order of the pairs.
\* Whatever order "for ... in active" visits the pairs in on each snapshot,
\* the written trace is the same one (the one of the fixed order of RunOn),
\* also for a table in which a monitored id or a shadow id occurs in two
\* pairs.
OrderIndependent ==
    pc = "done" => OutTrace = RunOn(NewTrace)

\* C28 for the tables in which no monitored id occurs in two pairs (a shadow
\* id may): this part of the claim holds of the code
OrderIndependentUniqueMonitored ==
    (pc = "done" /\ UniqueMonitored(shadow_map)) => OutTrace = RunOn(NewTrace)

\* the shadow ids of the pairs of sm are pairwise different
UniqueShadows(sm) == \A p, q \in sm : p[2] = q[2] => p = q

\* the latched value of a shadow whose pair is still watched
Watching == IF engine \in OrEngines THEN 0 ELSE 1

\* C29: the active set agrees with the latched values.  When no shadow id
\* occurs in two pairs, once a snapshot has been folded a pair is in the
\* active set exactly if the latched value of its shadow is the watching
\* value of the policy (0 in the OR engines, 1 in the AND engines).
ActiveAgreesWithLatched ==
    (pc \in {"loop", "done"} /\ idx >= 1 /\ UniqueShadows(shadow_map)) =>
        \A p \in shadow_map :
            p \in active <=> shadow_latched[p[2]] = Watching

\* an AND engine after two snapshots: pair (10,20) has settled at 0 and left
\* the active set, pair (11,21) is still watched at 1
ActiveAgreesWithLatchedWitness ==
    /\ engine \in AndEngines
    /\ pc = "loop"
    /\ idx = 2
    /\ shadow_map = {<<10, 20>>, <<11, 21>>}
    /\ active = {<<11, 21>>}
    /\ shadow_latched[20] = 0
    /\ shadow_latched[21] = 1

\* the pipeline is at an AND clip that follows an empty AND clip, which
\* itself follows a clip with a shadowed output of at least one snapshot
AfterEmptyClip ==
    /\ clip_i >= 3
    /\ ppc = "run"
    /\ policy[clip_i] = 1
    /\ policy[clip_i - 1] = 1
    /\ traces[clip_i - 1] = <<>>
    /\ fs[OutShadow(clip_i - 2)].data # <<>>

\* the output of AND engine eng for clip d, seeded through an empty clip
\* that is seeded from the previous output prev
ThroughEmptyClip(eng, prev, d, sm) ==
    AndRun(eng, File(AndRun(eng, prev, <<>>, sm)), d, sm)

\* C30: an empty clip in the middle of a chain is neutral.  An AND clip
\* that follows an empty AND clip is processed without error and gets the
\* output it gets when seeded directly from the output of the clip before
\* the empty one, by the engine of the pipeline and by pex_shadow2_v2 alike.
EmptyMiddleNeutral ==
    AfterEmptyClip =>
        /\ pc # "error"
        /\ pc = "done" =>
               OutTrace = AndRun(engine, fs[OutShadow(clip_i - 2)], NewTrace, shadow_map)
        /\ ThroughEmptyClip("pex_shadow2_v2", fs[OutShadow(clip_i - 2)],
                            traces[clip_i], shadow_map)
             = AndRun("pex_shadow2_v2", fs[OutShadow(clip_i - 2)],
                      traces[clip_i], shadow_map)

RECURSIVE ClipsFrom(_, _)
\* the snapshots of the input clips r, r+1, ..., i one after the other
ClipsFrom(r, i) == IF r > i THEN <<>> ELSE ClipsFrom(r, i - 1) \o traces[i]

\* the most recent OR clip before clip i
LastOrBefore(i) ==
    CHOOSE r \in 1..(i - 1) :
        policy[r] = 0 /\ \A q \in (r + 1)..(i - 1) : policy[q] = 1

\* the monitored value of oid changed inside clip r
ChangedInside(r, oid) == \E j \in 2..Len(traces[r]) : ChangedAt(traces[r], oid, j)

\* the monitored value of oid did not change in any snapshot after clip r up
\* to snapshot k of clip i
UnchangedSince(r, i, k, oid) ==
    LET g == ClipsFrom(r, i - 1) \o SubSeq(traces[i], 1, k)
    IN  \A j \in (Len(traces[r]) + 1)..Len(g) : ~ChangedAt(g, oid, j)

\* the monitored value of oid is the same in every snapshot of every clip
NeverChanges(oid) ==
    LET g == ClipsFrom(1, Len(policy))
    IN  \A j \in 2..Len(g) : ~ChangedAt(g, oid, j)

\* C31: mixed-policy runs.  In a pipeline run whose first clip is an OR
\* clip, a shadow shows 1 in an output snapshot of an AND clip only if the
\* monitored value of its pair changed inside the most recent OR clip before
\* it and has not changed in any snapshot after that OR clip up to and
\* including this one; and the shadow of a pair whose monitored value never
\* changes in the run shows 0 in every output snapshot of every clip.  (The
\* outputs are looked at whenever no engine is in the middle of a clip.)
MixedPolicyShadow ==
    (policy[1] = 0 /\ pc \in {"idle", "done"}) =>
        \A i \in 1..Len(policy) : \A p \in shadow_map :
            \A k \in 1..Len(fs[OutShadow(i)].data) :
                /\ (policy[i] = 1 /\ Shows(fs[OutShadow(i)].data[k], p[2], 1)) =>
                       /\ ChangedInside(LastOrBefore(i), p[1])
                       /\ UnchangedSince(LastOrBefore(i), i, k, p[1])
                /\ NeverChanges(p[1]) => Shows(fs[OutShadow(i)].data[k], p[2], 0)

\* OR clip 1 changes id 10, the AND clips 2 and 3 keep its value: the output
\* of clip 3 shows shadow 20 at 1, and shadow 21 of the steady id 11 at 0
MixedPolicyShadowWitness ==
    /\ policy = <<0, 1, 1>>
    /\ ppc = "done"
    /\ ChangedInside(1, 10)
    /\ Shows(fs[OutShadow(2)].data[1], 20, 1)
    /\ Shows(fs[OutShadow(3)].data[1], 20, 1)
    /\ Shows(fs[OutShadow(3)].data[1], 21, 0)

\* the pipeline has stopped on an exception
Stopped == ppc = "error"

\* the shadow stage of the current clip has exited with failure and run() is
\* about to raise
ShadowStageFailed == ppc = "run" /\ pc = "error"

\* C32: a failing stage stops the pipeline.  Once a stage command has exited
\* with failure the pipeline takes no further step except to stop: no engine
\* is started, no file is written, the clip counter does not advance.  A
\* stopped pipeline has started no stage of a later clip (no later output
\* exists, no engine is running), and prev_shadowed only ever changes to the
\* output of the current clip after its engine has exited with success.
FailingStageStops ==
    /\ [][/\ ~Stopped
          /\ ShadowStageFailed =>
                 /\ ppc' = "error"
                 /\ fs' = fs /\ clip_i' = clip_i /\ prev_shadowed' = prev_shadowed
          /\ Stopped' =>
                 /\ fs' = fs /\ clip_i' = clip_i /\ prev_shadowed' = prev_shadowed
                 /\ pc' = "idle"
          /\ prev_shadowed' # prev_shadowed =>
                 /\ ppc = "run" /\ pc = "done"
                 /\ argv.out = OutShadow(clip_i)
                 /\ prev_shadowed' = OutShadow(clip_i)]_vars
    /\ [](Stopped =>
            /\ pc = "idle"
            /\ prev_shadowed # OutShadow(clip_i)
            /\ \A j \in (clip_i + 1)..Len(policy) : ~fs[OutShadow(j)].exists)

\* the AND engine of clip 2 of 3 has failed after clip 1 went through: the run
\* has stopped, prev_shadowed is still the output of clip 1 and neither clip 2
\* nor clip 3 has an output
FailingStageStopsWitness ==
    /\ Stopped
    /\ Len(policy) = 3 /\ clip_i = 2
    /\ engine = "pex_shadow_2" /\ argv.out = OutShadow(2)
    /\ fs["pex.yaml"] = File(traces[2])
    /\ prev_shadowed = OutShadow(1)
    /\ fs[OutShadow(1)].exists
    /\ ~fs[OutShadow(2)].exists /\ ~fs[OutShadow(3)].exists

====
